---- MODULE Spec2Model ----
(***************************************************************************)
(* Model of justynroberts/filewatcher, src/main.py: the watchdog callback  *)
(* Handler.on_any_event (filter, debounce, thread spawn), the stability    *)
(* gate Handler.check_file_stability and the dispatch Handler.post_event.  *)
(*                                                                         *)
(* Time.  time.time() is the variable now, counted in ticks of             *)
(* 1/TicksPerSecond second, so that two events can arrive less than one    *)
(* debounce window apart.  Inside one stability check, time is counted in  *)
(* completed time.sleep(1) calls (the field slept): every sleep is taken   *)
(* to last exactly one second, the idealisation the timing statements of   *)
(* the gate are written in.  The sleep touches no state, so a loop         *)
(* iteration and the sleep that ends it are one step.                      *)
(*                                                                         *)
(* The file system belongs to other processes: what a thread finds at a    *)
(* path (no file, or a file of some size) is chosen afresh at every read.  *)
(*                                                                         *)
(* on_any_event makes no blocking call and shares no state with the steps  *)
(* of the dispatch threads, so it is one atomic action; its frame (the     *)
(* variable call) stays visible until the action Return.                   *)
(*                                                                         *)
(* Paths and glob patterns are sequences of one-character strings.         *)
(* Optional values (None, a missing file) are sequences of length 0 or 1.  *)
(***************************************************************************)
EXTENDS Integers, Sequences, FiniteSets, Bags, TLC

VARIABLES
    now,              \* time.time(), in ticks
    enabled,          \* Handler.file_stability_check_enabled
    wait_seconds,     \* Handler.file_stability_wait_seconds
    last_event_time,  \* Handler.last_event_time: src_path -> time of last accepted event
    threads,          \* the dispatch threads started so far, in order of start
    posts,            \* bag of the payloads requests.post was called with
    call,             \* frame of the latest on_any_event call: <<>> or <<frame>>
    stopped           \* the observer was stopped (KeyboardInterrupt in Watcher.run)

vars == <<now, enabled, wait_seconds, last_event_time, threads, posts, call, stopped>>

----------------------------------------------------------------------------
(* Bounds of the model *)

TicksPerSecond == 2
MaxTime == 5
MaxThreads == 2
MaxWait == 3
MaxSamples == 5
\* threads of the notification source that may be inside on_any_event at once
MaxCallers == 2
\* threads started in the runs checked for progress
MaxFairThreads == 1

----------------------------------------------------------------------------
(* Configuration and inputs *)

\* self.debounce_seconds = 1.0
debounce_seconds == 1

DebounceTicks == debounce_seconds * TicksPerSecond

PathA == <<"/", "a", ".", "c">>
PathB == <<"/", "b", ".", "c">>
PathT == <<"/", "a", ".", "t">>

Paths == {PathA, PathB, PathT}

\* file_extension_pattern of the configuration: "*.c"
file_extension_pattern == <<"*", ".", "c">>

Kinds == {"modified", "deleted", "moved"}

\* event_types of the configuration
event_types == {"modified", "deleted"}

RawEvents == [src_path : Paths, event_type : Kinds, is_directory : BOOLEAN]

Sizes == {100, 150}

\* HTTP status codes the destination answers with
Statuses == {200, 201, 500}

Cwd == <<"/">>

None == <<>>
Some(v) == <<v>>

----------------------------------------------------------------------------
(* Library functions, computed as the library computes them *)

\* fnmatch.fnmatch(name, pat) for patterns made of literals, "?" and "*"
RECURSIVE FnMatch(_, _)
FnMatch(name, pat) ==
    IF pat = <<>> THEN name = <<>>
    ELSE IF Head(pat) = "*"
         THEN \/ FnMatch(name, Tail(pat))
              \/ name # <<>> /\ FnMatch(Tail(name), pat)
    ELSE IF name = <<>> THEN FALSE
    ELSE IF Head(pat) = "?" THEN FnMatch(Tail(name), Tail(pat))
    ELSE Head(name) = Head(pat) /\ FnMatch(Tail(name), Tail(pat))

\* os.path.abspath(path): a relative path is joined to the working directory
AbsPath(path) ==
    IF path # <<>> /\ Head(path) = "/" THEN path ELSE Cwd \o path

\* index of the last "/" of path, 0 if there is none
LastSlash(path) ==
    LET S == {i \in 1..Len(path) : path[i] = "/"}
    IN  IF S = {} THEN 0 ELSE CHOOSE i \in S : \A j \in S : j <= i

\* os.path.split(path): <<head, tail>>; the head keeps its slash only when it is the root
Split(path) ==
    LET k == LastSlash(path)
        head == SubSeq(path, 1, k)
        tail == SubSeq(path, k + 1, Len(path))
    IN  <<IF k > 1 THEN SubSeq(head, 1, k - 1) ELSE head, tail>>

\* dict.get(key, default)
Get(d, key, default) == IF key \in DOMAIN d THEN d[key] ELSE default

\* str(uuid.uuid4()): a value no earlier call returned
Uuid4 == Len(threads) + 1

----------------------------------------------------------------------------
(* Handler.on_any_event *)

\* the two conditions of line 48 joined by `and'
FilteredBoth(event) ==
    event.is_directory /\ ~FnMatch(event.src_path, file_extension_pattern)

\* line 48: the event is a directory event or its path does not match the pattern
Filtered(event) ==
    event.is_directory \/ ~FnMatch(event.src_path, file_extension_pattern)

\* the comparison turned round
TooSoonInverted(current_time, last_time) ==
    current_time - last_time > DebounceTicks

\* the comparison made inclusive
TooSoonInclusive(current_time, last_time) ==
    current_time - last_time <= DebounceTicks

\* line 53: current_time - last_time < self.debounce_seconds
TooSoon(current_time, last_time) ==
    current_time - last_time < DebounceTicks

\* the test of line 56 left out: every kind of event is taken
KindAcceptedAny(event) ==
    event.event_type \in Kinds

\* line 56: event.event_type in self.event_types
KindAccepted(event) ==
    event.event_type \in event_types

\* one time of last event for all paths
SetLastEventTimeAll(d, event, current_time) ==
    [p \in DOMAIN d \cup {event.src_path} |-> current_time]

\* line 57: self.last_event_time[event.src_path] = current_time
SetLastEventTime(d, event, current_time) ==
    [p \in DOMAIN d \cup {event.src_path} |->
        IF p = event.src_path THEN current_time ELSE d[p]]

\* lines 60-61: the thread object, target post_event, args (event, event_id); of the
\* event, post_event reads src_path only, its kind is carried along unread
NewThread(event, event_id) ==
    [event_id     |-> event_id,
     src_path     |-> event.src_path,
     event_type   |-> event.event_type,
     pc           |-> "start",
     stable_count |-> 0,
     last_size    |-> None,
     samples      |-> <<>>,     \* history: the sizes os.path.getsize returned
     slept        |-> 0,        \* history: completed time.sleep(1) calls
     gate         |-> None,     \* return value of check_file_stability
     gate_log     |-> "none",   \* what check_file_stability logged last
     status       |-> None,     \* response.status_code
     outcome      |-> "running"]

\* thread.start() followed by thread.join()
JoinedThreadsAll == DOMAIN threads

\* lines 60-61: thread.start() and return: the callback joins no thread
JoinedThreads == {}

\* the callback is not waiting for a thread
CallbackFree ==
    \A i \in JoinedThreads : threads[i].pc = "done"

OnAnyEvent(event) ==
    /\ ~stopped
    /\ call = None
    /\ CallbackFree
    /\ Len(threads) < MaxThreads
    /\ LET current_time == now
           last_time == Get(last_event_time, event.src_path, 0)
           frame == [event        |-> event,
                     current_time |-> current_time,
                     last_time    |-> last_time,
                     known        |-> event.src_path \in DOMAIN last_event_time,
                     started      |-> Len(threads),   \* threads started before the call
                     event_id     |-> None]
       IN  IF Filtered(event) \/ TooSoon(current_time, last_time) \/ ~KindAccepted(event)
           THEN /\ call' = Some(frame)
                /\ UNCHANGED <<last_event_time, threads>>
           ELSE /\ last_event_time' = SetLastEventTime(last_event_time, event, current_time)
                /\ threads' = Append(threads, NewThread(event, Uuid4))
                /\ call' = Some([frame EXCEPT !.event_id = Some(Uuid4)])
    /\ UNCHANGED <<now, enabled, wait_seconds, posts, stopped>>

----------------------------------------------------------------------------
(* Handler.check_file_stability, one step per loop iteration *)

\* the loop condition with <= for <
LoopGoesOnInclusive(t) ==
    t.stable_count <= wait_seconds

\* the loop condition with > for <
LoopGoesOnInverted(t) ==
    t.stable_count > wait_seconds

\* line 69: while stable_count < self.file_stability_wait_seconds
LoopGoesOn(t) ==
    t.stable_count < wait_seconds

\* lines 70-72 and 91-93: the file is gone, or getsize raised: return False
GateFails(t, why) ==
    [t EXCEPT !.gate = Some(FALSE), !.gate_log = why]

\* a changed size moves the reference but leaves the counter alone
ReadingNoReset(t, current_size) ==
    LET u == [t EXCEPT !.samples = Append(@, current_size), !.slept = @ + 1]
    IN  IF t.last_size = None
        THEN [u EXCEPT !.last_size = Some(current_size)]
        ELSE IF Some(current_size) = t.last_size
        THEN [u EXCEPT !.stable_count = @ + 1]
        ELSE [u EXCEPT !.last_size = Some(current_size), !.gate_log = "size changed"]

\* a changed size resets the counter but the reference stays the first size read
ReadingKeepsReference(t, current_size) ==
    LET u == [t EXCEPT !.samples = Append(@, current_size), !.slept = @ + 1]
    IN  IF t.last_size = None
        THEN [u EXCEPT !.last_size = Some(current_size)]
        ELSE IF Some(current_size) = t.last_size
        THEN [u EXCEPT !.stable_count = @ + 1]
        ELSE [u EXCEPT !.stable_count = 0, !.gate_log = "size changed"]

\* a reading equal to the reference is not counted
ReadingForgetsCount(t, current_size) ==
    LET u == [t EXCEPT !.samples = Append(@, current_size), !.slept = @ + 1]
    IN  IF t.last_size = None
        THEN [u EXCEPT !.last_size = Some(current_size)]
        ELSE IF Some(current_size) = t.last_size
        THEN u
        ELSE [u EXCEPT !.stable_count = 0, !.last_size = Some(current_size),
                       !.gate_log = "size changed"]

\* lines 74-86: one size reading, the bookkeeping that follows it and time.sleep(1)
Reading(t, current_size) ==
    LET u == [t EXCEPT !.samples = Append(@, current_size), !.slept = @ + 1]
    IN  IF t.last_size = None
        THEN [u EXCEPT !.last_size = Some(current_size)]
        ELSE IF Some(current_size) = t.last_size
        THEN [u EXCEPT !.stable_count = @ + 1]
        ELSE [u EXCEPT !.stable_count = 0, !.last_size = Some(current_size),
                       !.gate_log = "size changed"]

\* lines 88-89: the loop is left: return True
GatePasses(t) ==
    [t EXCEPT !.gate = Some(TRUE), !.gate_log = "stable"]

----------------------------------------------------------------------------
(* Handler.post_event, one step per blocking call *)

\* the return of line 104 left out: the thread goes on to the POST
DroppedFallsThrough(t) ==
    [t EXCEPT !.pc = "send", !.outcome = "unstable"]

\* lines 102-104: the gate returned False: log a warning and return
Dropped(t) ==
    [t EXCEPT !.pc = "done", !.outcome = "unstable"]

\* the payload carries an id of its own, not the one minted in on_any_event
PayloadMintsAgain(t) ==
    LET parts == Split(AbsPath(t.src_path))
    IN  [filepath |-> parts[1], filename |-> parts[2], event_id |-> t.event_id + MaxThreads]

\* lines 106-111: the payload
Payload(t) ==
    LET parts == Split(AbsPath(t.src_path))
    IN  [filepath |-> parts[1], filename |-> parts[2], event_id |-> t.event_id]

\* a response other than 200 sends the thread back to the POST
RespondedRetries(t, status_code) ==
    [t EXCEPT !.pc = IF status_code # 200 THEN "send" ELSE "done",
              !.status = Some(status_code),
              !.outcome = IF status_code # 200 THEN "failure" ELSE "success"]

\* every status_code below 300 taken for a success
RespondedAny2xx(t, status_code) ==
    [t EXCEPT !.pc = "done",
              !.status = Some(status_code),
              !.outcome = IF status_code >= 300 THEN "failure" ELSE "success"]

\* lines 124-127: the response is looked at once and post_event returns
Responded(t, status_code) ==
    [t EXCEPT !.pc = "done",
              !.status = Some(status_code),
              !.outcome = IF status_code # 200 THEN "failure" ELSE "success"]

\* lines 128-129: the exception is logged and post_event returns
Raised(t) ==
    [t EXCEPT !.pc = "done", !.outcome = "exception"]

\* a failed dispatch forgets the path, so that the next event on it is taken again
AfterFailureForgets(d, t) ==
    [p \in DOMAIN d \ {t.src_path} |-> d[p]]

\* lines 124-125 and 128-129: a failed dispatch logs and leaves self.last_event_time as it is
AfterFailure(d, t) == d

\* what a thread finds at a path: no file, or a file of some size
Contents == {None} \cup {Some(s) : s \in Sizes}

RECURSIVE SumLen(_, _)
SumLen(ts, k) == IF k = 0 THEN 0 ELSE Len(ts[k].samples) + SumLen(ts, k - 1)

\* the size readings taken so far by all threads
SamplesTaken == SumLen(threads, Len(threads))

\* the check is skipped for an event of kind deleted
BeginSkipsDeleted(i) ==
    /\ call = None
    /\ threads[i].pc = "start"
    /\ threads' = [threads EXCEPT ![i].pc = IF enabled /\ threads[i].event_type # "deleted"
                                            THEN "loop" ELSE "send"]
    /\ UNCHANGED <<now, enabled, wait_seconds, last_event_time, posts, call, stopped>>

\* lines 96-104, thread i enters post_event
Begin(i) ==
    /\ call = None
    /\ threads[i].pc = "start"
    /\ threads' = [threads EXCEPT ![i].pc = IF enabled THEN "loop" ELSE "send"]
    /\ UNCHANGED <<now, enabled, wait_seconds, last_event_time, posts, call, stopped>>

\* lines 69-89, thread i goes once round the loop (condition, reading, bookkeeping and
\* the sleep of one second), or leaves it
Check(i) ==
    LET t == threads[i]
        file_path == AbsPath(t.src_path)
    IN  /\ call = None
        /\ t.pc = "loop"
        /\ IF LoopGoesOn(t)
           THEN /\ SamplesTaken < MaxSamples
                /\ \E content \in Contents, raises \in BOOLEAN :
                     IF content = None      \* os.path.exists(file_path) is False
                     THEN threads' = [threads EXCEPT ![i] = Dropped(GateFails(t, "missing"))]
                     ELSE IF raises         \* os.path.getsize(file_path) raises
                     THEN threads' = [threads EXCEPT ![i] = Dropped(GateFails(t, "error"))]
                     ELSE threads' = [threads EXCEPT ![i] = Reading(t, content[1])]
           ELSE threads' = [threads EXCEPT ![i] = [GatePasses(t) EXCEPT !.pc = "send"]]
        /\ UNCHANGED <<now, enabled, wait_seconds, last_event_time, posts, call, stopped>>

\* lines 106-122, thread i builds the payload and the headers and calls requests.post
Send(i) ==
    /\ call = None
    /\ threads[i].pc = "send"
    /\ threads' = [threads EXCEPT ![i].pc = "wait"]
    /\ posts' = posts (+) SetToBag({Payload(threads[i])})
    /\ UNCHANGED <<now, enabled, wait_seconds, last_event_time, call, stopped>>

\* lines 106-120 raise (os.path.expandvars on a header that is no string)
SendRaises(i) ==
    /\ call = None
    /\ threads[i].pc = "send"
    /\ threads' = [threads EXCEPT ![i] = Raised(@)]
    /\ last_event_time' = AfterFailure(last_event_time, threads[i])
    /\ UNCHANGED <<now, enabled, wait_seconds, posts, call, stopped>>

\* lines 122-127, requests.post returns a response
Respond(i, status_code) ==
    /\ call = None
    /\ threads[i].pc = "wait"
    /\ threads' = [threads EXCEPT ![i] = Responded(@, status_code)]
    /\ last_event_time' = IF status_code # 200
                          THEN AfterFailure(last_event_time, threads[i])
                          ELSE last_event_time
    /\ UNCHANGED <<now, enabled, wait_seconds, posts, call, stopped>>

\* lines 122 and 128-129, requests.post raises (connection error, timeout)
PostRaises(i) ==
    /\ call = None
    /\ threads[i].pc = "wait"
    /\ threads' = [threads EXCEPT ![i] = Raised(@)]
    /\ last_event_time' = AfterFailure(last_event_time, threads[i])
    /\ UNCHANGED <<now, enabled, wait_seconds, posts, call, stopped>>

----------------------------------------------------------------------------
(* The environment *)

\* the clock advances
Tick ==
    /\ call = None
    /\ now < MaxTime
    /\ now' = now + 1
    /\ UNCHANGED <<enabled, wait_seconds, last_event_time, threads, posts, call, stopped>>

\* on_any_event returns to the observer thread
Return ==
    /\ call # None
    /\ call' = None
    /\ UNCHANGED <<now, enabled, wait_seconds, last_event_time, threads, posts, stopped>>

\* the interruption ends the dispatch threads with the observer (daemon threads)
StopCancels ==
    /\ call = None
    /\ ~stopped
    /\ stopped' = TRUE
    /\ threads' = [i \in DOMAIN threads |-> [threads[i] EXCEPT !.pc = "done"]]
    /\ UNCHANGED <<now, enabled, wait_seconds, last_event_time, posts, call>>

\* Watcher.run, lines 25-26: KeyboardInterrupt, self.observer.stop()
Stop ==
    /\ call = None
    /\ ~stopped
    /\ stopped' = TRUE
    /\ UNCHANGED <<now, enabled, wait_seconds, last_event_time, threads, posts, call>>

----------------------------------------------------------------------------

\* Handler.__init__, lines 35-45, and the state of the world when the observer starts.
\* The configuration is any of: check disabled (the wait is then never read), or check
\* enabled with a wait of 0..MaxWait seconds.  The clock starts at 0 and every later
\* starting value is reached by Tick.
Init ==
    /\ now = 0
    /\ enabled \in BOOLEAN
    /\ wait_seconds \in 0..MaxWait
    /\ enabled = FALSE => wait_seconds = MaxWait
    /\ last_event_time = <<>>
    /\ threads = <<>>
    /\ posts = EmptyBag
    /\ call = None
    /\ stopped = FALSE

Next ==
    \/ \E event \in RawEvents : OnAnyEvent(event)
    \/ \E i \in DOMAIN threads : Begin(i)
    \/ \E i \in DOMAIN threads : Check(i)
    \/ \E i \in DOMAIN threads : Send(i)
    \/ \E i \in DOMAIN threads : SendRaises(i)
    \/ \E i \in DOMAIN threads, status_code \in Statuses : Respond(i, status_code)
    \/ \E i \in DOMAIN threads : PostRaises(i)
    \/ Tick
    \/ Return
    \/ Stop

Spec == Init /\ [][Next]_vars

----------------------------------------------------------------------------
(* on_any_event called by a notification source with several threads.  The *)
(* method takes no lock, so a call is two steps here: lines 48-52, which   *)
(* read the clock and last_event_time, and lines 53-61, which decide on    *)
(* what was read and write.  `call' holds one frame per caller inside the  *)
(* method or just out of it; the frames go when all callers have returned. *)

\* the callers that have read and not yet decided
Undecided(c) == {k \in DOMAIN c : c[k].pc = "read"}

\* lines 48-52: a caller enters, returns on a filtered event, otherwise reads
\* time.time() and self.last_event_time.get(event.src_path, 0)
ReadLastTime(event) ==
    /\ ~stopped
    /\ Len(call) < MaxCallers
    /\ Len(threads) + Cardinality(Undecided(call)) < MaxThreads
    /\ call' = Append(call,
                      [event |-> event, current_time |-> now,
                       last_time |-> Get(last_event_time, event.src_path, 0),
                       known |-> event.src_path \in DOMAIN last_event_time,
                       started |-> Len(threads), event_id |-> None,
                       pc |-> IF Filtered(event) THEN "returned" ELSE "read"])
    /\ UNCHANGED <<now, enabled, wait_seconds, last_event_time, threads, posts, stopped>>

\* lines 53-61: caller k decides on the values it has read, and returns
DecideAndStart(k) ==
    LET f == call[k]
    IN  /\ f.pc = "read"
        /\ IF TooSoon(f.current_time, f.last_time) \/ ~KindAccepted(f.event)
           THEN /\ call' = [call EXCEPT ![k].pc = "returned"]
                /\ UNCHANGED <<last_event_time, threads>>
           ELSE /\ last_event_time' = SetLastEventTime(last_event_time, f.event, f.current_time)
                /\ threads' = Append(threads, NewThread(f.event, Uuid4))
                /\ call' = [call EXCEPT ![k].pc = "returned", ![k].event_id = Some(Uuid4)]
        /\ UNCHANGED <<now, enabled, wait_seconds, posts, stopped>>

\* every caller has returned
ReturnAll ==
    /\ call # None
    /\ Undecided(call) = {}
    /\ call' = None
    /\ UNCHANGED <<now, enabled, wait_seconds, last_event_time, threads, posts, stopped>>

\* time passes, whoever is inside the method
TickAny ==
    /\ now < MaxTime
    /\ now' = now + 1
    /\ UNCHANGED <<enabled, wait_seconds, last_event_time, threads, posts, call, stopped>>

NextRace ==
    \/ \E event \in RawEvents : ReadLastTime(event)
    \/ \E k \in DOMAIN call : DecideAndStart(k)
    \/ ReturnAll
    \/ TickAny

SpecRace == Init /\ [][NextRace]_vars

----------------------------------------------------------------------------
(* The program under a fair scheduler: a call of on_any_event returns (it  *)
(* blocks on nothing), and a started thread that can take a step of        *)
(* post_event again and again takes it.  Nothing is assumed of the         *)
(* observer, of the clock or of the server that answers the POST.          *)
Fairness ==
    /\ WF_vars(Return)
    /\ \A i \in 1..MaxFairThreads :
           /\ SF_vars(i \in DOMAIN threads /\ Begin(i))
           /\ SF_vars(i \in DOMAIN threads /\ Check(i))
           /\ SF_vars(i \in DOMAIN threads /\ Send(i))

\* the steps of Next, with no more than MaxFairThreads threads started
NextFair ==
    \/ \E event \in RawEvents : OnAnyEvent(event) /\ Len(threads') <= MaxFairThreads
    \/ \E i \in DOMAIN threads : Begin(i)
    \/ \E i \in DOMAIN threads : Check(i)
    \/ \E i \in DOMAIN threads : Send(i)
    \/ \E i \in DOMAIN threads : SendRaises(i)
    \/ \E i \in DOMAIN threads, status_code \in Statuses : Respond(i, status_code)
    \/ \E i \in DOMAIN threads : PostRaises(i)
    \/ Tick
    \/ Return
    \/ Stop

SpecFair == Init /\ [][NextFair]_vars /\ Fairness

----------------------------------------------------------------------------
(* Vocabulary of the properties *)

\* the raw event is a file event, matches the pattern and is of an accepted kind
Passes(event) ==
    /\ ~event.is_directory
    /\ FnMatch(event.src_path, file_extension_pattern)
    /\ event.event_type \in event_types

\* the call with frame f rejected its event: no correlation id, no thread, no state change
Rejected(f) ==
    /\ f.event_id = None
    /\ Len(threads) = f.started
    /\ Get(last_event_time, f.event.src_path, 0) = f.last_time
    /\ (f.event.src_path \in DOMAIN last_event_time) = f.known

\* the call with frame f accepted its event: one new thread, carrying a new correlation id
Accepted(f) ==
    /\ f.event_id # None
    /\ Len(threads) = f.started + 1
    /\ threads[Len(threads)].event_id = f.event_id[1]
    /\ threads[Len(threads)].src_path = f.event.src_path
    /\ threads[Len(threads)].pc = "start"
    /\ f.event.src_path \in DOMAIN last_event_time
    /\ last_event_time[f.event.src_path] = f.current_time

\* the call with frame f is a second event on a path: an event was accepted on the
\* path at f.last_time, none since, and this one passes the filter at a later time
SecondEvent(f) ==
    /\ f.known
    /\ Passes(f.event)
    /\ f.current_time > f.last_time

----------------------------------------------------------------------------
(* C1: debounce rule.  A second event on a path, arriving after the last   *)
(* accepted one, is rejected when less than one debounce window has passed *)
(* since that one, and accepted when a full window or more has passed.     *)
C1_DebounceRule ==
    call # None =>
        LET f == call[1]
        IN  SecondEvent(f) =>
                IF f.current_time - f.last_time < DebounceTicks
                THEN Rejected(f)
                ELSE Accepted(f)

\* a second event half a second after the accepted one was rejected
C1_Witness ==
    /\ call # None
    /\ SecondEvent(call[1])
    /\ call[1].current_time - call[1].last_time = 1
    /\ TicksPerSecond > 1
    /\ Rejected(call[1])

(* C2 as stated: a second event that arrives exactly one debounce window   *)
(* after the last accepted one is rejected.                                *)
C2_TieRejected ==
    call # None =>
        LET f == call[1]
        IN  SecondEvent(f) /\ f.current_time - f.last_time = DebounceTicks
                => Rejected(f)

(* C2, amended: a second event that arrives exactly one debounce window    *)
(* after the last accepted one is outside the window and is accepted.      *)
C2_TieAccepted ==
    call # None =>
        LET f == call[1]
        IN  SecondEvent(f) /\ f.current_time - f.last_time = DebounceTicks
                => Accepted(f)

\* a second event exactly one window after the accepted one was accepted
C2_Witness ==
    /\ call # None
    /\ SecondEvent(call[1])
    /\ call[1].current_time - call[1].last_time = DebounceTicks
    /\ Accepted(call[1])

----------------------------------------------------------------------------
(* Vocabulary of the properties about the stability gate and the dispatch *)

\* the number of POSTs issued so far whose payload carries event_id
RECURSIVE Copies(_, _)
Copies(S, event_id) ==
    IF S = {} THEN 0
    ELSE LET p == CHOOSE q \in S : TRUE
         IN  (IF p.event_id = event_id THEN CopiesIn(p, posts) ELSE 0)
                 + Copies(S \ {p}, event_id)

PostsFor(event_id) == Copies(BagToSet(posts), event_id)

\* check_file_stability returned True / returned False / has not returned
Stable(t) == t.gate = Some(TRUE)
NotStable(t) == t.gate = Some(FALSE)

\* the last n readings of the thread are n readings of one size
LastEqual(t, n) ==
    /\ Len(t.samples) >= n
    /\ \A k \in (Len(t.samples) - n + 1)..Len(t.samples) :
           t.samples[k] = t.samples[Len(t.samples)]

\* every reading of the thread found the same size
Constant(t) ==
    \A k \in 1..Len(t.samples) : t.samples[k] = t.samples[1]

\* every reading of the thread found another size than the reading before it
Growing(t) ==
    \A k \in 2..Len(t.samples) : t.samples[k] # t.samples[k - 1]

\* the index of the last reading that differed from the reading before it
LastChange(t) ==
    LET S == {k \in 2..Len(t.samples) : t.samples[k] # t.samples[k - 1]}
    IN  CHOOSE k \in S : \A j \in S : j <= k

----------------------------------------------------------------------------
(* C3: soundness of the stability gate.  check_file_stability returns True *)
(* or False and nothing else; it returns True only after readings that     *)
(* each found the file, were each followed by a sleep of one second, and   *)
(* of which the last N found one size, N = file_stability_wait_seconds;    *)
(* and with the check enabled a POST is issued only after it returned True.*)
C3_GateSound ==
    \A i \in DOMAIN threads :
        LET t == threads[i]
        IN  /\ t.gate \in {None, Some(TRUE), Some(FALSE)}
            /\ ~(Stable(t) /\ NotStable(t))
            /\ enabled /\ t.pc \in {"send", "wait", "done"} => t.gate # None
            /\ Stable(t) =>
                   /\ LastEqual(t, wait_seconds)
                   /\ t.slept = Len(t.samples)
                   /\ t.gate_log = "stable"
            /\ enabled /\ PostsFor(t.event_id) > 0 => Stable(t)

\* a POST went out after a check of MaxWait seconds during which the size changed
C3_Witness ==
    \E i \in DOMAIN threads :
        /\ enabled
        /\ wait_seconds = MaxWait
        /\ Stable(threads[i])
        /\ ~Constant(threads[i])
        /\ PostsFor(threads[i].event_id) = 1

(* C4 as stated: on a file whose size is the same at every reading, the    *)
(* gate returns True after exactly N readings.                             *)
C4_StableAfterNSamples ==
    \A i \in DOMAIN threads :
        LET t == threads[i]
        IN  Stable(t) /\ Constant(t) => Len(t.samples) = wait_seconds

(* C4, amended: on a file whose size is the same at every reading, the     *)
(* gate with N >= 1 returns True after exactly N + 1 readings, taken at    *)
(* t = 0..N, and, each reading being followed by a sleep of one second,    *)
(* at t = N + 1; with N <= 0 it returns True at once, without a reading.   *)
C4_StableAfterNPlusOne ==
    \A i \in DOMAIN threads :
        LET t == threads[i]
        IN  /\ Stable(t) /\ Constant(t) =>
                   IF wait_seconds >= 1
                   THEN Len(t.samples) = wait_seconds + 1 /\ t.slept = wait_seconds + 1
                   ELSE Len(t.samples) = 0 /\ t.slept = 0
            /\ t.pc = "loop" /\ Constant(t) /\ t.samples # <<>> =>
                   /\ t.stable_count = Len(t.samples) - 1
                   /\ Len(t.samples) <= wait_seconds + 1

\* N = 3 and sizes 100, 100, 100, 100: True at t = 4, and the POST went out
C4_Witness ==
    \E i \in DOMAIN threads :
        /\ wait_seconds = 3
        /\ Stable(threads[i])
        /\ threads[i].samples = <<100, 100, 100, 100>>
        /\ threads[i].slept = 4
        /\ PostsFor(threads[i].event_id) = 1

(* C5 as stated: when the size changed during the check, True is reported  *)
(* N seconds after the reading at which the size last changed.             *)
C5_StableNAfterChange ==
    \A i \in DOMAIN threads :
        LET t == threads[i]
        IN  Stable(t) /\ ~Constant(t) => t.slept = (LastChange(t) - 1) + wait_seconds

(* C5, amended: a reading that differs from the one before resets the      *)
(* counter to zero and becomes the reference; True is then reported after  *)
(* N further readings of that size, N + 1 seconds after the reading at     *)
(* which the size last changed, and more than N seconds after the first    *)
(* reading.                                                                *)
C5_StableNPlusOneAfterChange ==
    \A i \in DOMAIN threads :
        LET t == threads[i]
            n == Len(t.samples)
        IN  /\ t.pc = "loop" /\ n >= 1 => t.last_size = Some(t.samples[n])
            /\ t.pc = "loop" /\ n >= 2 /\ t.samples[n] # t.samples[n - 1] =>
                   t.stable_count = 0
            /\ Stable(t) /\ ~Constant(t) =>
                   /\ n = LastChange(t) + wait_seconds
                   /\ t.slept = (LastChange(t) - 1) + wait_seconds + 1
                   /\ t.slept > wait_seconds

\* N = 3 and sizes 100, 150, 150, 150, 150: True at t = 5
C5_Witness ==
    \E i \in DOMAIN threads :
        /\ wait_seconds = 3
        /\ Stable(threads[i])
        /\ threads[i].samples = <<100, 150, 150, 150, 150>>
        /\ threads[i].slept = 5

(* C6: when the file is missing at a checkpoint of the gate, or reading    *)
(* its size raises, the gate returns False, post_event returns, and no     *)
(* POST carries the event's correlation id, then or later.                 *)
C6_GateFailureDrops ==
    \A i \in DOMAIN threads :
        LET t == threads[i]
        IN  /\ t.gate_log \in {"missing", "error"} => NotStable(t)
            /\ NotStable(t) =>
                   /\ enabled
                   /\ t.gate_log \in {"missing", "error"}
                   /\ t.pc = "done"
                   /\ t.outcome = "unstable"
                   /\ PostsFor(t.event_id) = 0

\* one check ended on a file that vanished after a reading, another on a failed read
C6_Witness ==
    \E i, j \in DOMAIN threads :
        /\ threads[i].gate_log = "missing"
        /\ threads[i].samples # <<>>
        /\ threads[j].gate_log = "error"
        /\ threads[i].pc = "done"
        /\ threads[j].pc = "done"

(* C7 as stated: with the check enabled, an event on a file whose size     *)
(* differs between every two consecutive readings never passes the gate    *)
(* and no POST is issued for it.                                           *)
C7_GrowingNeverPasses ==
    \A i \in DOMAIN threads :
        LET t == threads[i]
        IN  enabled /\ Growing(t) =>
                ~Stable(t) /\ PostsFor(t.event_id) = 0

(* C7, amended: with the check enabled and N >= 1, an event on a file      *)
(* whose size differs between every two consecutive readings never passes  *)
(* the gate and no POST is issued for it.                                  *)
C7_GrowingNeverPassesPositiveN ==
    \A i \in DOMAIN threads :
        LET t == threads[i]
        IN  enabled /\ wait_seconds >= 1 /\ Growing(t) =>
                /\ ~Stable(t)
                /\ t.pc \notin {"send", "wait"}
                /\ PostsFor(t.event_id) = 0

\* five readings, each of another size than the one before, and the thread still waits
C7_Witness ==
    \E i \in DOMAIN threads :
        /\ enabled
        /\ wait_seconds >= 1
        /\ Len(threads[i].samples) = MaxSamples
        /\ Growing(threads[i])
        /\ threads[i].pc = "loop"
        /\ threads[i].stable_count = 0

----------------------------------------------------------------------------
(* Vocabulary of the properties about concurrency *)

\* the callback may be called: the observer runs, the last call has returned, and the
\* model's bound on the number of threads is not reached
CallbackDue ==
    call = None /\ ~stopped /\ Len(threads) < MaxThreads

\* the event passes the filter and the debounce window of its path is over
Due(event) ==
    /\ Passes(event)
    /\ now - Get(last_event_time, event.src_path, 0) >= DebounceTicks

\* thread i ended on a failure: a failed check, a response other than 200, an exception
Failed(i) == threads[i].outcome \in {"unstable", "failure", "exception"}

\* this step is the one in which thread i fails
Fails(i) == threads[i].outcome = "running" /\ threads'[i].outcome # "success"
                /\ threads'[i].outcome # "running"

\* thread i, not yet done, can take its next step (as far as the bound on readings allows)
CanStep(i) ==
    \/ ENABLED Begin(i)
    \/ ENABLED Check(i)
    \/ ENABLED Send(i)
    \/ \E status_code \in Statuses : ENABLED Respond(i, status_code)
    \/ threads[i].pc = "loop" /\ SamplesTaken >= MaxSamples

(* C8: dispatch does not block the callback.  Whatever the number and the  *)
(* state of the dispatch threads, on_any_event can be called with any raw  *)
(* event, and an event that passes the filter after its debounce window    *)
(* is accepted.                                                            *)
C8_NonBlocking ==
    CallbackDue =>
        \A event \in RawEvents :
            /\ ENABLED OnAnyEvent(event)
            /\ Due(event) =>
                   ENABLED (OnAnyEvent(event) /\ Len(threads') = Len(threads) + 1)

\* an event was accepted while the HTTP call of an earlier event had not returned
C8_Witness ==
    /\ call # None
    /\ Accepted(call[1])
    /\ \E i \in 1..(Len(threads) - 1) : threads[i].pc = "wait"

(* C9: failure containment.  The step in which a dispatch thread fails     *)
(* (failed check, response other than 200, exception) ends that thread     *)
(* and changes nothing else: not last_event_time, not another thread.      *)
(* After it the callback still takes and accepts events and the other      *)
(* threads still take their steps.                                         *)
C9_FailureContained ==
    /\ [][\A i \in DOMAIN threads :
            Fails(i) =>
                /\ threads'[i].pc = "done"
                /\ DOMAIN threads' = DOMAIN threads
                /\ \A j \in DOMAIN threads : j # i => threads'[j] = threads[j]
                /\ UNCHANGED <<now, enabled, wait_seconds, last_event_time, posts,
                               call, stopped>>]_vars
    /\ [](\A i \in DOMAIN threads :
            Failed(i) =>
                /\ CallbackDue =>
                       \A event \in RawEvents :
                           Due(event) =>
                               ENABLED (OnAnyEvent(event)
                                           /\ Len(threads') = Len(threads) + 1)
                /\ call = None =>
                       \A j \in DOMAIN threads : threads[j].pc # "done" => CanStep(j))

\* an event was accepted after the dispatch of an earlier event had failed
C9_Witness ==
    /\ call # None
    /\ Accepted(call[1])
    /\ \E i \in 1..(Len(threads) - 1) :
           /\ threads[i].outcome \in {"failure", "exception"}
           /\ threads[i].src_path = call[1].event.src_path

(* C10 as stated: at most one POST per correlation id, and exactly one     *)
(* once post_event has returned with the check disabled or passed.         *)
C10_ExactlyOnePost ==
    \A i \in DOMAIN threads :
        LET t == threads[i]
        IN  /\ PostsFor(t.event_id) <= 1
            /\ t.pc = "done" /\ (~enabled \/ Stable(t)) => PostsFor(t.event_id) = 1

(* C10, amended: at most one POST per correlation id, whatever its         *)
(* outcome; once post_event has returned with the check disabled or        *)
(* passed, exactly one POST was attempted, unless the payload or the       *)
(* headers raised before the call, and then none was.                      *)
C10_OnePostUnlessRaisedBefore ==
    \A i \in DOMAIN threads :
        LET t == threads[i]
        IN  /\ PostsFor(t.event_id) <= 1
            /\ t.pc = "done" /\ (~enabled \/ Stable(t)) =>
                   \/ PostsFor(t.event_id) = 1
                   \/ PostsFor(t.event_id) = 0 /\ t.outcome = "exception"
            /\ t.pc = "wait" \/ t.outcome \in {"success", "failure"} =>
                   PostsFor(t.event_id) = 1

\* one dispatch ended on a 500 and one on an exception in the call: one POST each
C10_Witness ==
    \E i, j \in DOMAIN threads :
        /\ threads[i].status = Some(500)
        /\ threads[i].pc = "done"
        /\ PostsFor(threads[i].event_id) = 1
        /\ threads[j].outcome = "exception"
        /\ threads[j].pc = "done"
        /\ PostsFor(threads[j].event_id) = 1

----------------------------------------------------------------------------
(* C11: correlation id.  Each accepted event gets one correlation id,      *)
(* minted in the call of on_any_event that accepts it and never changed    *)
(* after; no two dispatches (on one path or on two) carry the same id;     *)
(* every POST carries the id, and the path, of exactly one dispatch.       *)
C11_OneIdPerDispatch ==
    /\ [](/\ \A i, j \in DOMAIN threads :
                 i # j => threads[i].event_id # threads[j].event_id
          /\ \A p \in BagToSet(posts) :
                 \E i \in DOMAIN threads :
                     /\ p.event_id = threads[i].event_id
                     /\ <<p.filepath, p.filename>> = Split(AbsPath(threads[i].src_path))
          /\ \A i \in DOMAIN threads :
                 threads[i].pc = "wait" => PostsFor(threads[i].event_id) = 1
          /\ call # None /\ call[1].event_id # None =>
                 /\ threads[Len(threads)].event_id = call[1].event_id[1]
                 /\ \A i \in 1..call[1].started :
                        threads[i].event_id # call[1].event_id[1])
    /\ [][\A i \in DOMAIN threads :
              /\ i \in DOMAIN threads'
              /\ threads'[i].event_id = threads[i].event_id
              /\ threads'[i].src_path = threads[i].src_path]_vars

\* two dispatches on one path overlap, each has sent its POST, under two ids
C11_Witness ==
    /\ Len(threads) = 2
    /\ threads[1].src_path = threads[2].src_path
    /\ threads[1].pc = "wait" /\ threads[2].pc = "wait"
    /\ PostsFor(threads[1].event_id) = 1
    /\ PostsFor(threads[2].event_id) = 1
    /\ threads[1].event_id # threads[2].event_id

(* C12: frame of last_event_time.  The entry of a path changes only in the *)
(* call of on_any_event that accepts an event on that very path, and then  *)
(* to the time of the call; a rejected event, an event on another path and *)
(* every step of a dispatch thread leave it as it is.                      *)
C12_OnlyAcceptanceWrites ==
    [][\A p \in Paths :
           \/ /\ Get(last_event_time', p, 0) = Get(last_event_time, p, 0)
              /\ (p \in DOMAIN last_event_time') = (p \in DOMAIN last_event_time)
           \/ /\ call = None /\ call' # None
              /\ call'[1].event.src_path = p
              /\ call'[1].event_id # None
              /\ Passes(call'[1].event)
              /\ now - Get(last_event_time, p, 0) >= DebounceTicks
              /\ Len(threads') = Len(threads) + 1
              /\ p \in DOMAIN last_event_time'
              /\ last_event_time'[p] = now]_vars

\* an event is accepted on one path while another path keeps its older time
C12_Witness ==
    /\ call # None
    /\ Accepted(call[1])
    /\ \E p \in DOMAIN last_event_time :
           /\ p # call[1].event.src_path
           /\ last_event_time[p] < call[1].current_time

(* C13: filter.  A raw event with is_directory true, or with a path that   *)
(* does not match the pattern, is rejected whatever its kind and its time: *)
(* no correlation id, no thread, no POST, no change of last_event_time.    *)
C13_FilterRejects ==
    /\ call # None
          /\ (call[1].event.is_directory
                 \/ ~FnMatch(call[1].event.src_path, file_extension_pattern))
          => Rejected(call[1])
    /\ \A i \in DOMAIN threads : FnMatch(threads[i].src_path, file_extension_pattern)
    /\ \A p \in DOMAIN last_event_time : FnMatch(p, file_extension_pattern)
    /\ \A p \in BagToSet(posts) : FnMatch(p.filename, file_extension_pattern)

\* a directory event of an accepted kind on a matching path, a window or more after the
\* last accepted event on the path, was rejected
C13_Witness ==
    /\ call # None
    /\ call[1].event.is_directory
    /\ FnMatch(call[1].event.src_path, file_extension_pattern)
    /\ call[1].event.event_type \in event_types
    /\ call[1].known
    /\ call[1].current_time - call[1].last_time >= DebounceTicks
    /\ Rejected(call[1])

(* C14: kind.  An event whose kind is not in event_types gives no          *)
(* correlation id, no thread and no POST, and leaves last_event_time as it *)
(* is, so that it cannot debounce a later event on its path: every time in *)
(* last_event_time is the time of an event that got a thread.              *)
C14_KindRejected ==
    /\ [][call = None /\ call' # None /\ call'[1].event.event_type \notin event_types =>
              /\ call'[1].event_id = None
              /\ threads' = threads
              /\ posts' = posts
              /\ last_event_time' = last_event_time]_vars
    /\ [](\A p \in DOMAIN last_event_time :
              \E i \in DOMAIN threads : threads[i].src_path = p)

\* a file event of a kind that is not accepted, on a matching path and a window or more
\* after the last accepted event on the path, was rejected
C14_Witness ==
    /\ call # None
    /\ ~call[1].event.is_directory
    /\ FnMatch(call[1].event.src_path, file_extension_pattern)
    /\ call[1].event.event_type \notin event_types
    /\ call[1].known
    /\ call[1].current_time - call[1].last_time >= DebounceTicks
    /\ Rejected(call[1])

(* C15 as stated: first event on a path.  An event that passes the filter  *)
(* on a path on which no event was accepted before is accepted, whatever   *)
(* the time of the call, a time below the debounce window included.        *)
C15_FirstEventAccepted ==
    call # None /\ ~call[1].known /\ Passes(call[1].event) => Accepted(call[1])

(* C16: outcome of the delivery.  A dispatch is a success if and only if   *)
(* the status code of the response is 200; every other status code makes   *)
(* it a failure; either way post_event has returned, exactly one POST was  *)
(* made under the correlation id and none is made after.                   *)
C16_SuccessIff200 ==
    /\ [](\A i \in DOMAIN threads :
              LET t == threads[i]
              IN  /\ t.status # None =>
                         /\ t.pc = "done"
                         /\ PostsFor(t.event_id) = 1
                         /\ t.status = Some(200) => t.outcome = "success"
                         /\ t.status # Some(200) => t.outcome = "failure"
                  /\ t.outcome \in {"success", "failure"} => t.status # None)
    /\ [][\A i \in DOMAIN threads :
              threads[i].status # None =>
                  /\ threads'[i] = threads[i]
                  /\ PostsFor(threads[i].event_id)' = PostsFor(threads[i].event_id)]_vars

\* a response 201 Created was recorded as a failure, after one POST
C16_Witness ==
    \E i \in DOMAIN threads :
        /\ threads[i].status = Some(201)
        /\ threads[i].outcome = "failure"
        /\ threads[i].pc = "done"
        /\ PostsFor(threads[i].event_id) = 1

C18_AtMostOneAccepted ==
    \A j, k \in DOMAIN call :
        /\ j # k
        /\ call[j].event.src_path = call[k].event.src_path
        /\ Passes(call[j].event) /\ Passes(call[k].event)
        /\ call[j].current_time - call[k].current_time < DebounceTicks
        /\ call[k].current_time - call[j].current_time < DebounceTicks
        => call[j].event_id = None \/ call[k].event_id = None

----------------------------------------------------------------------------
(* Vocabulary of the properties about progress *)

\* a reading of thread i differs from the one before it, so late that the N + 1 readings
\* of one size the gate then needs do not fit the model's bound on readings
ChangedLate(i) ==
    \E k \in 2..Len(threads[i].samples) :
        /\ threads[i].samples[k] # threads[i].samples[k - 1]
        /\ k + wait_seconds > MaxSamples

\* another thread has taken readings, which count against the same bound
OtherSampled(i) ==
    \E j \in DOMAIN threads : j # i /\ threads[j].samples # <<>>

\* thread i has left post_event on an exception raised before the POST
RaisedBefore(i) ==
    threads[i].outcome = "exception" /\ PostsFor(threads[i].event_id) = 0

(* C19 as stated: liveness of the gate.  With the check enabled, a thread  *)
(* that finds the file at every checkpoint, and sees its size change only  *)
(* early enough for the bound on readings, gets True from the gate and     *)
(* issues its POST.                                                        *)
C19_StableAndPosted ==
    \A i \in 1..MaxFairThreads :
        (i \in DOMAIN threads /\ enabled)
            ~> (/\ i \in DOMAIN threads
                /\ \/ NotStable(threads[i])
                   \/ ChangedLate(i)
                   \/ OtherSampled(i)
                   \/ Stable(threads[i]) /\ PostsFor(threads[i].event_id) = 1)

(* C19, amended: with the check enabled, a thread that finds the file and  *)
(* reads its size without error at every checkpoint, and sees the size     *)
(* change only early enough for the bound on readings, gets True from the  *)
(* gate; it then issues its POST, unless the payload or the headers raise  *)
(* before the call.                                                        *)
C19_StableAndPostedUnlessRaised ==
    \A i \in 1..MaxFairThreads :
        (i \in DOMAIN threads /\ enabled)
            ~> (/\ i \in DOMAIN threads
                /\ \/ NotStable(threads[i])
                   \/ ChangedLate(i)
                   \/ OtherSampled(i)
                   \/ /\ Stable(threads[i])
                      /\ PostsFor(threads[i].event_id) = 1 \/ RaisedBefore(i))

\* after a change of size at its second reading, the longest check passed and the POST
\* was issued
C19_Witness ==
    /\ enabled
    /\ wait_seconds = MaxWait
    /\ \E i \in DOMAIN threads :
           /\ Len(threads[i].samples) = MaxWait + 2
           /\ threads[i].samples[1] # threads[i].samples[2]
           /\ Stable(threads[i])
           /\ threads[i].pc = "wait"
           /\ PostsFor(threads[i].event_id) = 1

----------------------------------------------------------------------------
(* C20 as stated: deleted events.  The thread of an accepted event of kind *)
(* deleted goes through the check like any other: with the check enabled   *)
(* and N >= 1 it sends a POST only after N + 1 readings that found the     *)
(* file, and when its first checkpoint finds no file the check returns     *)
(* False and no POST is ever sent; with the check disabled it never looks  *)
(* at the file and has sent exactly one POST when post_event returns.      *)
C20_DeletedDroppedOrPosted ==
    \A i \in DOMAIN threads :
        LET t == threads[i]
        IN  t.event_type = "deleted" =>
                /\ enabled /\ wait_seconds >= 1 =>
                       /\ t.pc \in {"send", "wait"} \/ PostsFor(t.event_id) > 0 =>
                              Len(t.samples) >= wait_seconds + 1
                       /\ t.samples = <<>> /\ t.pc \notin {"start", "loop"} =>
                              /\ NotStable(t)
                              /\ t.pc = "done"
                              /\ t.outcome = "unstable"
                              /\ PostsFor(t.event_id) = 0
                /\ ~enabled =>
                       /\ t.samples = <<>>
                       /\ t.gate = None
                       /\ t.pc = "wait" => PostsFor(t.event_id) = 1
                       /\ t.pc = "done" => PostsFor(t.event_id) = 1

(* C20, amended: as above, but with the check disabled the thread has sent *)
(* exactly one POST when post_event returns unless the payload or the      *)
(* headers raised before the call, and then none.                          *)
C20_DeletedDroppedOrPostedUnlessRaised ==
    \A i \in DOMAIN threads :
        LET t == threads[i]
        IN  t.event_type = "deleted" =>
                /\ enabled /\ wait_seconds >= 1 =>
                       /\ t.pc \in {"send", "wait"} \/ PostsFor(t.event_id) > 0 =>
                              Len(t.samples) >= wait_seconds + 1
                       /\ t.samples = <<>> /\ t.pc \notin {"start", "loop"} =>
                              /\ NotStable(t)
                              /\ t.pc = "done"
                              /\ t.outcome = "unstable"
                              /\ PostsFor(t.event_id) = 0
                /\ ~enabled =>
                       /\ t.samples = <<>>
                       /\ t.gate = None
                       /\ t.pc = "wait" => PostsFor(t.event_id) = 1
                       /\ t.pc = "done" => PostsFor(t.event_id) = 1 \/ RaisedBefore(i)

\* with the check enabled and N >= 1, the thread of a deleted event found no file at its
\* first checkpoint and returned without a POST
C20_Witness ==
    /\ enabled
    /\ wait_seconds >= 1
    /\ \E i \in DOMAIN threads :
           /\ threads[i].event_type = "deleted"
           /\ threads[i].samples = <<>>
           /\ threads[i].gate_log = "missing"
           /\ threads[i].pc = "done"
           /\ PostsFor(threads[i].event_id) = 0

====
